---- MODULE Spec2Model ----
(***************************************************************************)
(* The scrape-job pipeline of the price comparison engine: producers LPUSH *)
(* JSON payloads on the Redis list scrape:jobs, and scraper workers BRPOP  *)
(* them, validate, resolve a strategy by retailer, search, normalize and   *)
(* save, until a termination signal drains them.                           *)
(***************************************************************************)
EXTENDS Integers, Sequences, FiniteSets, TLC

\* ------------------------------------------------------------------ bounds
NumWorkers == 2
MaxJobs == 2
MaxRecords == 2

Workers == 1..NumWorkers
JobIds == 1..MaxJobs

\* ----------------------------------------------------------------- strings
\* A string is a sequence of tokens: SP is one whitespace character, any
\* other token is a run of non-whitespace text.
SP == " "

RECURSIVE lstrip(_)
lstrip(s) == IF s # <<>> /\ Head(s) = SP THEN lstrip(Tail(s)) ELSE s

RECURSIVE rstrip(_)
rstrip(s) ==
    IF s # <<>> /\ s[Len(s)] = SP THEN rstrip(SubSeq(s, 1, Len(s) - 1)) ELSE s

\* str.strip()
strip(s) == rstrip(lstrip(s))

QueryStrs == {<<>>, <<SP>>, <<"iphone 15">>, <<SP, "iphone 15", SP>>}
RetailerStrs ==
    {<<>>, <<SP>>, <<"amazon">>, <<"flipkart">>, <<"ebay">>, <<"Amazon">>,
     <<"amazon", SP>>}

\* ---------------------------------------------------------------- payloads
\* A queue element as the worker sees it: json is FALSE for text json.loads
\* rejects; keys are the fields the object carries (an absent field holds the
\* empty string, which is what payload.get(k, "") reads).
Malformed == [json |-> FALSE, keys |-> {}, query |-> <<>>, retailer |-> <<>>]

Payloads ==
    {Malformed} \cup
    {[json |-> TRUE, keys |-> ks, query |-> q, retailer |-> r] :
        <<ks, q, r>> \in
            {x \in (SUBSET {"query", "retailer"}) \X QueryStrs \X RetailerStrs :
                /\ ("query" \notin x[1] => x[2] = <<>>)
                /\ ("retailer" \notin x[1] => x[3] = <<>>)}}

JobPayload(q, r) ==
    [json |-> TRUE, keys |-> {"query", "retailer"}, query |-> q, retailer |-> r]

\* The payloads pushed while the lifecycle of a worker is explored.
CorePayloads ==
    {Malformed, JobPayload(<<"iphone 15">>, <<"amazon">>),
     JobPayload(<<"iphone 15">>, <<"ebay">>)}

\* payload.get(key, "")
PayloadGet(p, key) ==
    IF key \notin p.keys THEN <<>>
    ELSE IF key = "query" THEN p.query ELSE p.retailer

\* The two locals the worker extracts before processing.
JobQuery(p) == strip(PayloadGet(p, "query"))
JobRetailer(p) == strip(PayloadGet(p, "retailer"))

Validate_NoStrip(p) ==
    IF PayloadGet(p, "query") = <<>> THEN "missing_query"
    ELSE IF PayloadGet(p, "retailer") = <<>> THEN "missing_retailer"
    ELSE "ok"

\* if not query: skip; if not retailer: skip
Validate(p) ==
    IF JobQuery(p) = <<>> THEN "missing_query"
    ELSE IF JobRetailer(p) = <<>> THEN "missing_retailer"
    ELSE "ok"

\* ---------------------------------------------------------------- registry
STRATEGY_REGISTRY ==
    {<<(<<"amazon">>), "AmazonScraper">>, <<(<<"flipkart">>), "FlipkartScraper">>}

RegistryKeys(reg) == {e[1] : e \in reg}

retailer_name(strategy) ==
    IF strategy = "AmazonScraper" THEN <<"amazon">> ELSE <<"flipkart">>

ValueError == "ValueError"

get_strategy_Default(reg, retailer) ==
    IF retailer \in RegistryKeys(reg)
    THEN (CHOOSE e \in reg : e[1] = retailer)[2]
    ELSE "AmazonScraper"

\* get_strategy(retailer): the registered instance, or ValueError
get_strategy(reg, retailer) ==
    IF retailer \notin RegistryKeys(reg)
    THEN ValueError
    ELSE (CHOOSE e \in reg : e[1] = retailer)[2]

\* ------------------------------------------------------------------ prices
\* The value raw_data.get('price') yields: None when the key is missing,
\* else the scraped text, one token per character.
NoPrice == [has |-> FALSE, text |-> <<>>]
PriceText(t) == [has |-> TRUE, text |-> t]

Digits == {"0", "1", "2", "3", "4", "5", "6", "7", "8", "9"}
CurrencySymbols == {"$", "Rs"}
ThousandsSeparators == {","}

DigitVal(c) ==
    CASE c = "0" -> 0 [] c = "1" -> 1 [] c = "2" -> 2 [] c = "3" -> 3
      [] c = "4" -> 4 [] c = "5" -> 5 [] c = "6" -> 6 [] c = "7" -> 7
      [] c = "8" -> 8 [] c = "9" -> 9

\* The text without currency symbols, thousands separators and blanks.
StripCurrency(t) ==
    SelectSeq(t, LAMBDA c : c \notin CurrencySymbols \cup ThousandsSeparators
                                         \cup {SP})

Count(t, c) == Cardinality({i \in DOMAIN t : t[i] = c})

\* Digits with at most one decimal point and a digit somewhere.
IsDecimal(t) ==
    /\ \A i \in DOMAIN t : t[i] \in Digits \cup {"."}
    /\ \E i \in DOMAIN t : t[i] \in Digits
    /\ Count(t, ".") <= 1

RECURSIVE DigitsValue(_)
DigitsValue(t) ==
    IF t = <<>> THEN 0
    ELSE 10 * DigitsValue(SubSeq(t, 1, Len(t) - 1)) + DigitVal(t[Len(t)])

PointAt(t) ==
    IF Count(t, ".") = 0 THEN Len(t) + 1
    ELSE CHOOSE i \in DOMAIN t : t[i] = "."

\* The decimal in hundredths; digits after the second decimal are cut.
Hundredths(t) ==
    LET whole == SubSeq(t, 1, PointAt(t) - 1)
        frac == SubSeq(t, PointAt(t) + 1, Len(t)) \o <<"0", "0">>
    IN  100 * DigitsValue(whole) + DigitsValue(SubSeq(frac, 1, 2))

\* What _parse_price yields: a number, null, or an exception.
Number(n) == [raised |-> FALSE, null |-> FALSE, hundredths |-> n]
Null == [raised |-> FALSE, null |-> TRUE, hundredths |-> 0]
Raised == [raised |-> TRUE, null |-> FALSE, hundredths |-> 0]

Parsable(price) == price.has /\ IsDecimal(StripCurrency(price.text))

_parse_price_Strict(price) ==
    IF Parsable(price)
    THEN Number(Hundredths(StripCurrency(price.text)))
    ELSE Raised

\* BaseScraper._parse_price: the decimal of the text, null when there is none
_parse_price(price) ==
    IF Parsable(price)
    THEN Number(Hundredths(StripCurrency(price.text)))
    ELSE Null

ListPrice == PriceText(<<"$", "9", "9", "9", ".", "0", "0">>)

\* ------------------------------------------------------------- raw records
\* What a strategy scrapes: ok is FALSE for a record normalize() raises on;
\* retailer is the value the scraped data itself carries under that key.
RawRecords ==
    {[ok |-> TRUE, title |-> "t", retailer |-> <<>>, price |-> ListPrice],
     [ok |-> TRUE, title |-> "t", retailer |-> <<"ebay">>, price |-> ListPrice],
     [ok |-> FALSE, title |-> "t", retailer |-> <<>>, price |-> ListPrice]}

SeqsUpTo(S, n) == UNION {[1..k -> S] : k \in 0..n}

Results == SeqsUpTo(RawRecords, MaxRecords)

CoreRaw == [ok |-> TRUE, title |-> "t", retailer |-> <<>>, price |-> ListPrice]
CoreResults == {<<>>, <<CoreRaw>>, <<CoreRaw, CoreRaw>>}

\* What is pushed and scraped while several workers share the queue.
ScalePayloads == {JobPayload(<<"iphone 15">>, <<"amazon">>)}
ScaleResults == {<<CoreRaw>>}

normalize_FromRaw(strategy, raw) ==
    [title |-> raw.title, price |-> _parse_price(raw.price),
     retailer |-> raw.retailer]

normalize_RawFirst(strategy, raw) ==
    [title |-> raw.title, price |-> _parse_price(raw.price),
     retailer |-> IF raw.retailer = <<>> THEN retailer_name(strategy)
                  ELSE raw.retailer]

\* BaseScraper.normalize
normalize(strategy, raw) ==
    [title |-> raw.title, price |-> _parse_price(raw.price),
     retailer |-> retailer_name(strategy)]

\* The canonical product of one raw record of a job.
Canonical(strategy, raw, query) ==
    [title |-> normalize(strategy, raw).title,
     price |-> normalize(strategy, raw).price,
     retailer |-> normalize(strategy, raw).retailer,
     query |-> query]

\* The raw records normalize() is called on by itself: every price text
\* with every retailer value the scraped data may carry.
PriceTexts ==
    {<<"$", "9", "9", "9", ".", "0", "0">>,
     <<"Rs", "1", ",", "2", "9", "9">>,
     <<"1", "2", ".", "5">>,
     <<"$", SP, "7">>,
     <<"Contact for price">>,
     <<"$">>,
     <<>>,
     <<"1", ".", "2", ".", "3">>,
     <<".">>,
     <<"9", "9", "x">>,
     <<"-", "5">>,
     <<"N/A">>}

Prices == {NoPrice} \cup {PriceText(t) : t \in PriceTexts}

PricedRecords ==
    [ok : {TRUE}, title : {"t"},
     retailer : {<<>>, <<"ebay">>, <<"amazon">>, <<"flipkart">>},
     price : Prices]

NoProduct == [title |-> "none", price |-> Null, retailer |-> <<>>]


RECURSIVE NormalizeAll_Abort(_, _, _)
NormalizeAll_Abort(strategy, raws, query) ==
    IF raws = <<>> THEN <<>>
    ELSE IF Head(raws).ok
         THEN <<Canonical(strategy, Head(raws), query)>>
                  \o NormalizeAll_Abort(strategy, Tail(raws), query)
         ELSE <<>>

\* Normalize every record, leaving out the ones normalize() raises on.
RECURSIVE NormalizeAll(_, _, _)
NormalizeAll(strategy, raws, query) ==
    IF raws = <<>> THEN <<>>
    ELSE IF Head(raws).ok
         THEN <<Canonical(strategy, Head(raws), query)>>
                  \o NormalizeAll(strategy, Tail(raws), query)
         ELSE NormalizeAll(strategy, Tail(raws), query)

\* --------------------------------------------------------------- API input
\* The length of a string, in characters.
RECURSIVE StrLen(_)
StrLen(s) == IF s = <<>> THEN 0 ELSE Len(Head(s)) + StrLen(Tail(s))

\* The text t written n times, as one run of characters.
RECURSIVE Repeat(_, _)
Repeat(t, n) ==
    IF n = 0 THEN ""
    ELSE IF n % 2 = 0
         THEN LET half == Repeat(t, n \div 2) IN half \o half
         ELSE t \o Repeat(t, n - 1)

MinQueryLen == 1
MaxQueryLen == 200

\* A field of a request body: absent, of a type that is no string, or a string.
Absent == [type |-> "absent", str |-> <<>>]
NotString == [type |-> "number", str |-> <<>>]
Str(s) == [type |-> "string", str |-> s]

QueryFields ==
    {Absent, NotString, Str(<<>>), Str(<<SP>>), Str(<<"iphone 15">>),
     Str(<<SP, "iphone 15", SP>>), Str(<<Repeat("x", MaxQueryLen)>>),
     Str(<<Repeat("x", MaxQueryLen + 1)>>)}
RetailerFields ==
    {Absent, NotString, Str(<<"amazon">>), Str(<<"flipkart">>), Str(<<"ebay">>),
     Str(<<"Amazon">>), Str(<<"amazon", SP>>)}

Bodies == [query : QueryFields, retailer : RetailerFields]

\* z.string().min(lo).max(hi)
z_string(v, lo, hi) ==
    v.type = "string" /\ StrLen(v.str) >= lo /\ StrLen(v.str) <= hi

\* z.enum(options)
z_enum(v, options) == v.type = "string" /\ v.str \in options

ZodError == "ZodError"

scrapeSchema_parse_QueryOnly(body) ==
    IF z_string(body.query, MinQueryLen, MaxQueryLen)
    THEN [thrown |-> "none", query |-> body.query.str,
          retailer |-> body.retailer.str]
    ELSE [thrown |-> ZodError, query |-> <<>>, retailer |-> <<>>]

\* scrapeSchema.parse(req.body): the parsed object, or ZodError thrown
scrapeSchema_parse(body) ==
    IF /\ z_string(body.query, MinQueryLen, MaxQueryLen)
       /\ z_enum(body.retailer, {<<"amazon">>, <<"flipkart">>})
    THEN [thrown |-> "none", query |-> body.query.str,
          retailer |-> body.retailer.str]
    ELSE [thrown |-> ZodError, query |-> <<>>, retailer |-> <<>>]

\* Date.prototype.toISOString of the instant t
Times == 1..2
toISOString(t) == <<"ISO-8601", t>>

\* enqueueScrapeJob(query): the function binds its one parameter to the first
\* argument of the call; JSON.stringify({ query, createdAt }).
enqueueScrapeJob(args, now) ==
    LET query == args[1]
    IN  [json |-> TRUE, keys |-> {"query", "createdAt"}, query |-> query,
         retailer |-> <<>>, createdAt |-> toISOString(now)]

\* errorHandler(err, req, res, next)
errorHandler(err) ==
    IF err = ZodError
    THEN [status |-> 400, message |-> "Validation error"]
    ELSE [status |-> 500, message |-> err]

NoBody == [query |-> Absent, retailer |-> Absent]
NoRes == [status |-> 0, message |-> "none"]

\* ------------------------------------------------------------------- state
VARIABLES
    queue,      \* the list scrape:jobs; index 1 is the LPUSH end
    pushed,     \* how many elements producers have pushed
    state,      \* lifecycle state of each worker process
    pc,         \* where each worker's main() stands
    shutdown,   \* shutdown_event of each worker process
    registry,   \* STRATEGY_REGISTRY of each worker process
    cur,        \* the element a worker popped and is processing
    strategy,   \* the strategy resolved for cur
    raws,       \* what strategy.search() returned for cur
    pool,       \* the ThreadPoolExecutor(max_workers=1): idle, busy, down
    conn,       \* the queue (redis) and store (mongo) connections
    closes,     \* how often each connection was closed
    exitCode,   \* -1 while the process runs, else its exit status
    received,   \* history: ids each worker's BRPOP returned
    hist,       \* history: per job id, what happened to it
    sigInSearch,\* history: id of the job in search() when a signal arrived
    popsAfterSig \* history: BRPOP calls that returned after the signal

\* The API process (Express) that produces the jobs, and the script that
\* tests its queue service.
VARIABLES
    api,        \* bootstrap(): init, connecting, listening or exited
    redisInst,  \* how many clients lib/redis.ts has constructed
    apiPc,      \* where the handler of POST /api/scrape stands
    req,        \* the body of the request being handled
    res,        \* the response sent for it
    lpushArg,   \* the payload of the LPUSH the handler awaits
    test,       \* the script testQueue
    mongo,      \* connectDB(): disconnected, connecting, connected or failed
    apiExit,    \* the exit status of the API process, -1 while it runs
    svcInst,    \* how many clients services/queue.service.ts has constructed
    norm,       \* one call of BaseScraper.normalize
    web         \* one request to the router of /api/products

apiVars ==
    <<api, redisInst, apiPc, req, res, lpushArg, test, mongo, apiExit,
      svcInst, norm, web>>

workerVars ==
    <<queue, pushed, state, pc, shutdown, registry, cur, strategy, raws, pool,
      conn, closes, exitCode, received, hist, sigInSearch, popsAfterSig>>

vars == <<workerVars, apiVars>>

NoJob == [id |-> 0, payload |-> Malformed]
NoStrategy == "none"

NoHist ==
    [payload |-> Malformed, resolves |-> 0, searches |-> 0, returned |-> FALSE,
     result |-> <<>>, sink |-> <<>>, outcome |-> "none"]

\* Every worker process before main() has run.
Boot ==
    /\ state = [w \in Workers |-> "STARTING"]
    /\ pc = [w \in Workers |-> "start"]
    /\ shutdown = [w \in Workers |-> FALSE]
    /\ registry = [w \in Workers |-> {}]
    /\ cur = [w \in Workers |-> NoJob]
    /\ strategy = [w \in Workers |-> NoStrategy]
    /\ raws = [w \in Workers |-> <<>>]
    /\ pool = [w \in Workers |-> "idle"]
    /\ conn = [w \in Workers |-> [redis |-> "unopened", mongo |-> "unopened"]]
    /\ closes = [w \in Workers |-> [redis |-> 0, mongo |-> 0]]
    /\ exitCode = [w \in Workers |-> -1]
    /\ received = [w \in Workers |-> {}]
    /\ sigInSearch = [w \in Workers |-> 0]
    /\ popsAfterSig = [w \in Workers |-> 0]

\* No call of normalize() made yet.
NoNorm ==
    [pc |-> "idle", strategy |-> NoStrategy, raw |-> CoreRaw,
     out |-> NoProduct]

\* No request to /api/products made yet: the path below the mount point,
\* the value of ?q=, the handler Express chose, what the store was asked
\* and what it answered, and the response.
NoWeb ==
    [pc |-> "idle", path |-> <<>>, q |-> Absent, handler |-> "none",
     storeCalls |-> 0, found |-> "none", status |-> 0, body |-> "none"]

\* testQueue before it runs: the query it publishes, the id of the element
\* that LPUSH created, the query LPOP brought back and the line it logs.
NoTest ==
    [pc |-> "start", query |-> <<>>, id |-> 0, got |-> <<>>, result |-> "none"]

\* The API process before bootstrap() has run, the test script not started.
ApiBoot ==
    /\ api = "init"
    /\ redisInst = 0
    /\ apiPc = "idle"
    /\ req = NoBody
    /\ res = NoRes
    /\ lpushArg = Malformed
    /\ mongo = "disconnected"
    /\ apiExit = -1
    /\ svcInst = 0
    /\ norm = NoNorm
    /\ web = NoWeb
    /\ test = NoTest

Init ==
    /\ queue = <<>>
    /\ pushed = 0
    /\ hist = [j \in JobIds |-> NoHist]
    /\ Boot
    /\ ApiBoot

\* ---------------------------------------------------------------- producer
Lpush_Rpush(p) ==
    /\ pushed < MaxJobs
    /\ pushed' = pushed + 1
    /\ queue' = Append(queue, [id |-> pushed + 1, payload |-> p])
    /\ hist' = [hist EXCEPT ![pushed + 1].payload = p]
    /\ UNCHANGED <<state, pc, shutdown, registry, cur, strategy, raws, pool,
                   conn, closes, exitCode, received, sigInSearch, popsAfterSig>>

\* LPUSH scrape:jobs payload, as Redis executes it
Lpush(p) ==
    /\ pushed < MaxJobs
    /\ pushed' = pushed + 1
    /\ queue' = <<[id |-> pushed + 1, payload |-> p]>> \o queue
    /\ hist' = [hist EXCEPT ![pushed + 1].payload = p]
    /\ UNCHANGED <<state, pc, shutdown, registry, cur, strategy, raws, pool,
                   conn, closes, exitCode, received, sigInSearch, popsAfterSig>>

\* A producer pushes a payload.
Push(p) ==
    /\ Lpush(p)
    /\ UNCHANGED apiVars


\* ------------------------------------------------------------------ worker
Alive(w) == exitCode[w] = -1

\* STARTING: connections opened, registry populated, handlers installed.
StartOk(w) ==
    /\ pc[w] = "start"
    /\ conn' = [conn EXCEPT ![w] = [redis |-> "open", mongo |-> "open"]]
    /\ registry' = [registry EXCEPT ![w] = STRATEGY_REGISTRY]
    /\ state' = [state EXCEPT ![w] = "RUNNING"]
    /\ pc' = [pc EXCEPT ![w] = "loop"]
    /\ UNCHANGED <<queue, pushed, shutdown, cur, strategy, raws, pool, closes,
                   exitCode, received, hist, sigInSearch, popsAfterSig>>
    /\ UNCHANGED apiVars

StartFail_Degraded(w, which) ==
    /\ pc[w] = "start"
    /\ conn' = [conn EXCEPT ![w] =
                    IF which = "mongo"
                    THEN [redis |-> "open", mongo |-> "unopened"]
                    ELSE [redis |-> "unopened", mongo |-> "open"]]
    /\ registry' = [registry EXCEPT ![w] = STRATEGY_REGISTRY]
    /\ state' = [state EXCEPT ![w] = "RUNNING"]
    /\ pc' = [pc EXCEPT ![w] = "loop"]
    /\ UNCHANGED <<queue, pushed, shutdown, cur, strategy, raws, pool, closes,
                   exitCode, received, hist, sigInSearch, popsAfterSig>>
    /\ UNCHANGED apiVars

\* STARTING: the queue or the store cannot be reached; the process exits.
StartFail(w, which) ==
    /\ pc[w] = "start"
    /\ conn' = [conn EXCEPT ![w].redis =
                    IF which = "mongo" THEN "open" ELSE "unopened"]
    /\ exitCode' = [exitCode EXCEPT ![w] = 1]
    /\ pc' = [pc EXCEPT ![w] = "exited"]
    /\ UNCHANGED <<queue, pushed, state, shutdown, registry, cur, strategy,
                   raws, pool, closes, received, hist, sigInSearch,
                   popsAfterSig>>
    /\ UNCHANGED apiVars

SigInSearch(w, track) ==
    [sigInSearch EXCEPT ![w] =
        IF track /\ pc[w] = "searching" THEN cur[w].id ELSE @]

Signal_Cleanup(w, track) ==
    /\ Alive(w)
    /\ shutdown' = [shutdown EXCEPT ![w] = TRUE]
    /\ sigInSearch' = SigInSearch(w, track)
    /\ conn' = [conn EXCEPT ![w].mongo = "closed"]
    /\ closes' = [closes EXCEPT ![w].mongo = 1]
    /\ UNCHANGED <<queue, pushed, state, pc, registry, cur, strategy, raws,
                   pool, exitCode, received, hist, popsAfterSig>>
    /\ UNCHANGED apiVars

\* shutdown_handler(signum, _frame): shutdown_event.set()
Signal(w, track) ==
    /\ Alive(w)
    /\ shutdown' = [shutdown EXCEPT ![w] = TRUE]
    /\ sigInSearch' = SigInSearch(w, track)
    /\ UNCHANGED <<queue, pushed, state, pc, registry, cur, strategy, raws,
                   pool, conn, closes, exitCode, received, hist, popsAfterSig>>
    /\ UNCHANGED apiVars

LoopCheck_Forever(w) ==
    /\ pc[w] = "loop"
    /\ pc' = [pc EXCEPT ![w] = "issue"]
    /\ UNCHANGED <<queue, pushed, state, shutdown, registry, cur, strategy,
                   raws, pool, conn, closes, exitCode, received, hist,
                   sigInSearch, popsAfterSig>>
    /\ UNCHANGED apiVars

LoopCheck_KeepPolling(w) ==
    /\ pc[w] = "loop"
    /\ state' = [state EXCEPT ![w] = IF shutdown[w] THEN "DRAINING" ELSE @]
    /\ pc' = [pc EXCEPT ![w] = "issue"]
    /\ UNCHANGED <<queue, pushed, shutdown, registry, cur, strategy, raws,
                   pool, conn, closes, exitCode, received, hist, sigInSearch,
                   popsAfterSig>>
    /\ UNCHANGED apiVars

LoopCheck_Exit(w) ==
    /\ pc[w] = "loop"
    /\ IF shutdown[w]
       THEN /\ state' = [state EXCEPT ![w] = "STOPPED"]
            /\ pc' = [pc EXCEPT ![w] = "done"]
            /\ exitCode' = [exitCode EXCEPT ![w] = 0]
       ELSE /\ pc' = [pc EXCEPT ![w] = "issue"]
            /\ UNCHANGED <<state, exitCode>>
    /\ UNCHANGED <<queue, pushed, shutdown, registry, cur, strategy, raws,
                   pool, conn, closes, received, hist, sigInSearch,
                   popsAfterSig>>
    /\ UNCHANGED apiVars

\* while not shutdown_event.is_set(): ... ; on exit the cleanup runs
LoopCheck(w) ==
    /\ pc[w] = "loop"
    /\ IF shutdown[w]
       THEN /\ state' = [state EXCEPT ![w] = "DRAINING"]
            /\ pc' = [pc EXCEPT ![w] = "shutdown_pool"]
       ELSE /\ pc' = [pc EXCEPT ![w] = "issue"]
            /\ UNCHANGED state
    /\ UNCHANGED <<queue, pushed, shutdown, registry, cur, strategy, raws,
                   pool, conn, closes, exitCode, received, hist, sigInSearch,
                   popsAfterSig>>
    /\ UNCHANGED apiVars

\* loop.run_in_executor(executor, lambda: redis_client.brpop(...))
IssueDequeue(w) ==
    /\ pc[w] = "issue"
    /\ pool[w] = "idle"
    /\ pool' = [pool EXCEPT ![w] = "busy"]
    /\ pc' = [pc EXCEPT ![w] = "await_pop"]
    /\ UNCHANGED <<queue, pushed, state, shutdown, registry, cur, strategy,
                   raws, conn, closes, exitCode, received, hist, sigInSearch,
                   popsAfterSig>>
    /\ UNCHANGED apiVars

\* History of the pops that return once the flag is set (it never passes 2).
PopReturned(w, track) ==
    [popsAfterSig EXCEPT ![w] =
        IF track /\ shutdown[w] /\ @ < 2 THEN @ + 1 ELSE @]

BrpopJob_Peek(w, track) ==
    /\ pc[w] = "await_pop"
    /\ queue # <<>>
    /\ cur' = [cur EXCEPT ![w] = queue[Len(queue)]]
    /\ received' = [received EXCEPT ![w] = @ \cup {queue[Len(queue)].id}]
    /\ pool' = [pool EXCEPT ![w] = "idle"]
    /\ pc' = [pc EXCEPT ![w] = "process"]
    /\ popsAfterSig' = PopReturned(w, track)
    /\ UNCHANGED <<queue, pushed, state, shutdown, registry, strategy, raws,
                   conn, closes, exitCode, hist, sigInSearch>>
    /\ UNCHANGED apiVars

BrpopJob_DropOnShutdown(w, track) ==
    /\ pc[w] = "await_pop"
    /\ queue # <<>>
    /\ queue' = SubSeq(queue, 1, Len(queue) - 1)
    /\ cur' = [cur EXCEPT ![w] = IF shutdown[w] THEN NoJob
                                 ELSE queue[Len(queue)]]
    /\ received' = [received EXCEPT ![w] = @ \cup {queue[Len(queue)].id}]
    /\ pool' = [pool EXCEPT ![w] = "idle"]
    /\ pc' = [pc EXCEPT ![w] = IF shutdown[w] THEN "loop" ELSE "process"]
    /\ popsAfterSig' = PopReturned(w, track)
    /\ UNCHANGED <<pushed, state, shutdown, registry, strategy, raws, conn,
                   closes, exitCode, hist, sigInSearch>>
    /\ UNCHANGED apiVars

BrpopJob_StillBusy(w, track) ==
    /\ pc[w] = "await_pop"
    /\ queue # <<>>
    /\ queue' = SubSeq(queue, 1, Len(queue) - 1)
    /\ cur' = [cur EXCEPT ![w] = queue[Len(queue)]]
    /\ received' = [received EXCEPT ![w] = @ \cup {queue[Len(queue)].id}]
    /\ pc' = [pc EXCEPT ![w] = "process"]
    /\ popsAfterSig' = PopReturned(w, track)
    /\ UNCHANGED <<pushed, state, shutdown, registry, strategy, raws, conn,
                   closes, exitCode, hist, sigInSearch, pool>>
    /\ UNCHANGED apiVars

\* BRPOP scrape:jobs 5 returns the element at the tail, removing it atomically
BrpopJob(w, track) ==
    /\ pc[w] = "await_pop"
    /\ queue # <<>>
    /\ queue' = SubSeq(queue, 1, Len(queue) - 1)
    /\ cur' = [cur EXCEPT ![w] = queue[Len(queue)]]
    /\ received' = [received EXCEPT ![w] = @ \cup {queue[Len(queue)].id}]
    /\ pool' = [pool EXCEPT ![w] = "idle"]
    /\ pc' = [pc EXCEPT ![w] = "process"]
    /\ popsAfterSig' = PopReturned(w, track)
    /\ UNCHANGED <<pushed, state, shutdown, registry, strategy, raws, conn,
                   closes, exitCode, hist, sigInSearch>>
    /\ UNCHANGED apiVars

\* BRPOP scrape:jobs 5 returns nil: the list stayed empty for the timeout
BrpopTimeout(w, track) ==
    /\ pc[w] = "await_pop"
    /\ queue = <<>>
    /\ pool' = [pool EXCEPT ![w] = "idle"]
    /\ pc' = [pc EXCEPT ![w] = "loop"]
    /\ popsAfterSig' = PopReturned(w, track)
    /\ UNCHANGED <<queue, pushed, state, shutdown, registry, cur, strategy,
                   raws, conn, closes, exitCode, received, hist, sigInSearch>>
    /\ UNCHANGED apiVars

\* The history of the job worker w holds, with outcome o and r more resolves.
Outcome(w, o, r) ==
    [hist EXCEPT ![cur[w].id].outcome = o, ![cur[w].id].resolves = @ + r]

LogAndContinue_Raise(w, h) ==
    /\ hist' = h
    /\ exitCode' = [exitCode EXCEPT ![w] = 1]
    /\ pc' = [pc EXCEPT ![w] = "exited"]
    /\ UNCHANGED <<state, cur, strategy, raws>>

\* A per-job error is caught at the job boundary: the job is logged and
\* dropped, and the loop goes on.
LogAndContinue(w, h) ==
    /\ hist' = h
    /\ cur' = [cur EXCEPT ![w] = NoJob]
    /\ strategy' = [strategy EXCEPT ![w] = NoStrategy]
    /\ raws' = [raws EXCEPT ![w] = <<>>]
    /\ pc' = [pc EXCEPT ![w] = "loop"]
    /\ UNCHANGED <<state, exitCode>>

BeginProcess_Spawn(w) ==
    /\ pc[w] = "process"
    /\ LET p == cur[w].payload
           s == get_strategy(registry[w], JobRetailer(p))
       IN  IF ~p.json THEN LogAndContinue(w, Outcome(w, "malformed", 0))
           ELSE IF Validate(p) # "ok"
           THEN LogAndContinue(w, Outcome(w, Validate(p), 0))
           ELSE IF s = ValueError
           THEN LogAndContinue(w, Outcome(w, "unsupported", 1))
           ELSE /\ hist' = [hist EXCEPT ![cur[w].id].resolves = @ + 1,
                                        ![cur[w].id].searches = @ + 1]
                /\ strategy' = [strategy EXCEPT ![w] = s]
                /\ pc' = [pc EXCEPT ![w] = "loop"]
                /\ UNCHANGED <<state, exitCode, cur, raws>>
    /\ UNCHANGED <<queue, pushed, shutdown, registry, pool, conn, closes,
                   received, sigInSearch, popsAfterSig>>
    /\ UNCHANGED apiVars

BeginProcess_Register(w) ==
    /\ pc[w] = "process"
    /\ LET p == cur[w].payload
           s == get_strategy(registry[w], JobRetailer(p))
       IN  IF ~p.json
           THEN LogAndContinue(w, Outcome(w, "malformed", 0))
                    /\ UNCHANGED registry
           ELSE IF Validate(p) # "ok"
           THEN LogAndContinue(w, Outcome(w, Validate(p), 0))
                    /\ UNCHANGED registry
           ELSE IF s = ValueError
           THEN /\ LogAndContinue(w, Outcome(w, "unsupported", 1))
                /\ registry' = [registry EXCEPT ![w] =
                                    @ \cup {<<JobRetailer(p), "AmazonScraper">>}]
           ELSE /\ hist' = [hist EXCEPT ![cur[w].id].resolves = @ + 1,
                                        ![cur[w].id].searches = @ + 1]
                /\ strategy' = [strategy EXCEPT ![w] = s]
                /\ pc' = [pc EXCEPT ![w] = "searching"]
                /\ UNCHANGED <<state, exitCode, cur, raws, registry>>
    /\ UNCHANGED <<queue, pushed, shutdown, pool, conn, closes, received,
                   sigInSearch, popsAfterSig>>
    /\ UNCHANGED apiVars

\* json.loads, validation, get_strategy, then the call of strategy.search()
BeginProcess(w) ==
    /\ pc[w] = "process"
    /\ LET p == cur[w].payload
           s == get_strategy(registry[w], JobRetailer(p))
       IN  IF ~p.json THEN LogAndContinue(w, Outcome(w, "malformed", 0))
           ELSE IF Validate(p) # "ok"
           THEN LogAndContinue(w, Outcome(w, Validate(p), 0))
           ELSE IF s = ValueError
           THEN LogAndContinue(w, Outcome(w, "unsupported", 1))
           ELSE /\ hist' = [hist EXCEPT ![cur[w].id].resolves = @ + 1,
                                        ![cur[w].id].searches = @ + 1]
                /\ strategy' = [strategy EXCEPT ![w] = s]
                /\ pc' = [pc EXCEPT ![w] = "searching"]
                /\ UNCHANGED <<state, exitCode, cur, raws>>
    /\ UNCHANGED <<queue, pushed, shutdown, registry, pool, conn, closes,
                   received, sigInSearch, popsAfterSig>>
    /\ UNCHANGED apiVars

\* products = await strategy.search(query)
SearchReturn(w, recs) ==
    /\ pc[w] = "searching"
    /\ raws' = [raws EXCEPT ![w] = recs]
    /\ hist' = [hist EXCEPT ![cur[w].id].returned = TRUE,
                            ![cur[w].id].result = recs]
    /\ pc' = [pc EXCEPT ![w] = "save"]
    /\ UNCHANGED <<queue, pushed, state, shutdown, registry, cur, strategy,
                   pool, conn, closes, exitCode, received, sigInSearch,
                   popsAfterSig>>
    /\ UNCHANGED apiVars

\* strategy.search() raises ScrapeFailure or BlockedOrChallenged
SearchFail(w, err) ==
    /\ pc[w] = "searching"
    /\ LogAndContinue(w, Outcome(w, err, 0))
    /\ UNCHANGED <<queue, pushed, shutdown, registry, pool, conn, closes,
                   received, sigInSearch, popsAfterSig>>
    /\ UNCHANGED apiVars

\* The history of the job worker w holds, with its batch handed to the Sink.
SinkCall(w) ==
    [hist EXCEPT ![cur[w].id].sink =
        Append(@, NormalizeAll(strategy[w], raws[w], JobQuery(cur[w].payload)))]

Save_Requeue(w, ok) ==
    /\ pc[w] = "save"
    /\ conn[w].mongo = "open"
    /\ hist' = [SinkCall(w) EXCEPT ![cur[w].id].outcome =
                    IF ok THEN "saved" ELSE "none"]
    /\ queue' = IF ok THEN queue ELSE <<cur[w]>> \o queue
    /\ cur' = [cur EXCEPT ![w] = NoJob]
    /\ strategy' = [strategy EXCEPT ![w] = NoStrategy]
    /\ raws' = [raws EXCEPT ![w] = <<>>]
    /\ pc' = [pc EXCEPT ![w] = "loop"]
    /\ UNCHANGED <<pushed, state, exitCode, shutdown, registry, pool, conn,
                   closes, received, sigInSearch, popsAfterSig>>
    /\ UNCHANGED apiVars

\* normalize every record, then save_results(query, products)
Save(w, ok) ==
    /\ pc[w] = "save"
    /\ conn[w].mongo = "open"
    /\ IF ok
       THEN /\ hist' = [SinkCall(w) EXCEPT ![cur[w].id].outcome = "saved"]
            /\ cur' = [cur EXCEPT ![w] = NoJob]
            /\ strategy' = [strategy EXCEPT ![w] = NoStrategy]
            /\ raws' = [raws EXCEPT ![w] = <<>>]
            /\ pc' = [pc EXCEPT ![w] = "loop"]
            /\ UNCHANGED <<state, exitCode>>
       ELSE LogAndContinue(w,
                [SinkCall(w) EXCEPT ![cur[w].id].outcome = "persistence_failure"])
    /\ UNCHANGED <<queue, pushed, shutdown, registry, pool, conn, closes,
                   received, sigInSearch, popsAfterSig>>
    /\ UNCHANGED apiVars

\* finally: executor.shutdown(wait=True)
ShutdownExecutor(w) ==
    /\ pc[w] = "shutdown_pool"
    /\ pool[w] # "busy"
    /\ pool' = [pool EXCEPT ![w] = "down"]
    /\ pc' = [pc EXCEPT ![w] = "close_redis"]
    /\ UNCHANGED <<queue, pushed, state, shutdown, registry, cur, strategy,
                   raws, conn, closes, exitCode, received, hist, sigInSearch,
                   popsAfterSig>>
    /\ UNCHANGED apiVars

CloseRedis_Skip(w) ==
    /\ pc[w] = "close_redis"
    /\ pc' = [pc EXCEPT ![w] = "close_mongo"]
    /\ UNCHANGED <<queue, pushed, state, shutdown, registry, cur, strategy,
                   raws, pool, conn, closes, exitCode, received, hist,
                   sigInSearch, popsAfterSig>>
    /\ UNCHANGED apiVars

\* finally: close the Redis connection
CloseRedis(w) ==
    /\ pc[w] = "close_redis"
    /\ conn' = [conn EXCEPT ![w].redis = "closed"]
    /\ closes' = [closes EXCEPT ![w].redis = @ + 1]
    /\ pc' = [pc EXCEPT ![w] = "close_mongo"]
    /\ UNCHANGED <<queue, pushed, state, shutdown, registry, cur, strategy,
                   raws, pool, exitCode, received, hist, sigInSearch,
                   popsAfterSig>>
    /\ UNCHANGED apiVars

\* finally: close the MongoDB connection; the process exits cleanly
CloseMongo(w) ==
    /\ pc[w] = "close_mongo"
    /\ conn' = [conn EXCEPT ![w].mongo = "closed"]
    /\ closes' = [closes EXCEPT ![w].mongo = @ + 1]
    /\ state' = [state EXCEPT ![w] = "STOPPED"]
    /\ pc' = [pc EXCEPT ![w] = "done"]
    /\ exitCode' = [exitCode EXCEPT ![w] = 0]
    /\ UNCHANGED <<queue, pushed, shutdown, registry, cur, strategy, raws,
                   pool, received, hist, sigInSearch, popsAfterSig>>
    /\ UNCHANGED apiVars

Crash_DropQueue(w) ==
    /\ Alive(w)
    /\ exitCode' = [exitCode EXCEPT ![w] = 137]
    /\ pc' = [pc EXCEPT ![w] = "crashed"]
    /\ cur' = [cur EXCEPT ![w] = NoJob]
    /\ strategy' = [strategy EXCEPT ![w] = NoStrategy]
    /\ raws' = [raws EXCEPT ![w] = <<>>]
    /\ queue' = <<>>
    /\ UNCHANGED <<pushed, state, shutdown, registry, pool, conn, closes,
                   received, hist, sigInSearch, popsAfterSig>>
    /\ UNCHANGED apiVars

\* The worker process is killed where it stands: what it held in memory is
\* gone, the list in Redis is not touched.
Crash(w) ==
    /\ Alive(w)
    /\ exitCode' = [exitCode EXCEPT ![w] = 137]
    /\ pc' = [pc EXCEPT ![w] = "crashed"]
    /\ cur' = [cur EXCEPT ![w] = NoJob]
    /\ strategy' = [strategy EXCEPT ![w] = NoStrategy]
    /\ raws' = [raws EXCEPT ![w] = <<>>]
    /\ UNCHANGED <<queue, pushed, state, shutdown, registry, pool, conn,
                   closes, received, hist, sigInSearch, popsAfterSig>>
    /\ UNCHANGED apiVars

\* --------------------------------------------------------------------- API
getRedis_Always(n) == n + 1

\* lib/redis.ts getRedis(): the client is constructed on the first call
\* only; n counts the clients the module has constructed, the call returning
\* the last of them
getRedis(n) == IF n = 0 THEN 1 ELSE n

\* services/queue.service.ts getRedis(): the same, on the module's own client
queueService_getRedis(n) == IF n = 0 THEN 1 ELSE n

\* bootstrap(): await connectDB()
Bootstrap ==
    /\ api = "init"
    /\ api' = "connecting"
    /\ UNCHANGED <<redisInst, apiPc, req, res, lpushArg, test>>
    /\ mongo' = "connecting"
    /\ UNCHANGED <<apiExit, svcInst, norm, web>>
    /\ UNCHANGED workerVars

\* bootstrap(): connectDB() resolved; getRedis(); app.listen(config.port)
ConnectOk ==
    /\ api = "connecting"
    /\ redisInst' = getRedis(redisInst)
    /\ api' = "listening"
    /\ UNCHANGED <<apiPc, req, res, lpushArg, test>>
    /\ mongo' = "connected"
    /\ UNCHANGED <<apiExit, svcInst, norm, web>>
    /\ UNCHANGED workerVars

ConnectFail_Continue ==
    /\ api = "connecting"
    /\ redisInst' = getRedis(redisInst)
    /\ api' = "listening"
    /\ mongo' = "failed"
    /\ UNCHANGED <<apiPc, req, res, lpushArg, test>>
    /\ UNCHANGED <<apiExit, svcInst, norm, web>>
    /\ UNCHANGED workerVars

\* connectDB(): mongoose.connect rejects; process.exit(1)
ConnectFail ==
    /\ api = "connecting"
    /\ api' = "exited"
    /\ UNCHANGED <<redisInst, apiPc, req, res, lpushArg, test>>
    /\ mongo' = "failed"
    /\ apiExit' = 1
    /\ UNCHANGED <<svcInst, norm, web>>
    /\ UNCHANGED workerVars

\* A POST /api/scrape arrives with this body.
Receive(body) ==
    /\ api = "listening"
    /\ apiPc = "idle"
    /\ pushed < MaxJobs
    /\ req' = body
    /\ res' = NoRes
    /\ apiPc' = "parse"
    /\ UNCHANGED <<api, redisInst, lpushArg, test>>
    /\ UNCHANGED <<mongo, apiExit, svcInst, norm, web>>
    /\ UNCHANGED workerVars

\* scrapeRouter.post: parse the body, then call enqueueScrapeJob up to its
\* await of LPUSH; a ZodError goes to next(err), that is to errorHandler.
Handle(now) ==
    /\ apiPc = "parse"
    /\ LET parsed == scrapeSchema_parse(req)
       IN  IF parsed.thrown # "none"
           THEN /\ res' = errorHandler(parsed.thrown)
                /\ apiPc' = "idle"
                /\ UNCHANGED <<lpushArg, redisInst>>
           ELSE /\ lpushArg' =
                       enqueueScrapeJob(<<parsed.query, parsed.retailer>>, now)
                /\ redisInst' = getRedis(redisInst)
                /\ apiPc' = "lpush"
                /\ UNCHANGED res
    /\ UNCHANGED <<api, req, test>>
    /\ UNCHANGED <<mongo, apiExit, svcInst, norm, web>>
    /\ UNCHANGED workerVars

\* await getRedis().lpush(SCRAPE_QUEUE, payload): Redis executes the LPUSH
LpushOk ==
    /\ apiPc = "lpush"
    /\ Lpush(lpushArg)
    /\ apiPc' = "respond"
    /\ UNCHANGED <<api, redisInst, req, res, lpushArg, test>>
    /\ UNCHANGED <<mongo, apiExit, svcInst, norm, web>>

LpushFail_Swallow ==
    /\ apiPc = "lpush"
    /\ res' = [status |-> 202, message |-> "Scrape job queued",
               query |-> scrapeSchema_parse(req).query,
               retailer |-> scrapeSchema_parse(req).retailer]
    /\ apiPc' = "idle"
    /\ UNCHANGED <<api, redisInst, req, lpushArg, test>>
    /\ UNCHANGED <<mongo, apiExit, svcInst, norm, web>>
    /\ UNCHANGED workerVars

\* await getRedis().lpush(...) rejects: next(err), that is errorHandler
LpushFail ==
    /\ apiPc = "lpush"
    /\ res' = errorHandler("Error")
    /\ apiPc' = "idle"
    /\ UNCHANGED <<api, redisInst, req, lpushArg, test>>
    /\ UNCHANGED <<mongo, apiExit, svcInst, norm, web>>
    /\ UNCHANGED workerVars

\* res.status(202).json({ message: "Scrape job queued", query, retailer })
Respond ==
    /\ apiPc = "respond"
    /\ res' = [status |-> 202, message |-> "Scrape job queued",
               query |-> scrapeSchema_parse(req).query,
               retailer |-> scrapeSchema_parse(req).retailer]
    /\ apiPc' = "idle"
    /\ UNCHANGED <<api, redisInst, req, lpushArg, test>>
    /\ UNCHANGED <<mongo, apiExit, svcInst, norm, web>>
    /\ UNCHANGED workerVars

\* ------------------------------------------------------------- testQueue
\* "test-query-" + Date.now()
TestQuery(t) == <<"test-query-" \o ToString(t)>>

\* publishScrapeJob: JSON.stringify({ query })
publishPayload(query) ==
    [json |-> TRUE, keys |-> {"query"}, query |-> query, retailer |-> <<>>]

TestPublish_Rpush(t) ==
    /\ test.pc = "start"
    /\ Lpush_Rpush(publishPayload(TestQuery(t)))
    /\ test' = [test EXCEPT !.pc = "published", !.query = TestQuery(t),
                            !.id = pushed + 1]
    /\ UNCHANGED <<api, redisInst, apiPc, req, res, lpushArg>>
    /\ svcInst' = queueService_getRedis(svcInst)
    /\ UNCHANGED <<mongo, apiExit, norm, web>>

\* testQueue: await publishScrapeJob(query), that is LPUSH scrape:jobs
TestPublish(t) ==
    /\ test.pc = "start"
    /\ Lpush(publishPayload(TestQuery(t)))
    /\ test' = [test EXCEPT !.pc = "published", !.query = TestQuery(t),
                            !.id = pushed + 1]
    /\ UNCHANGED <<api, redisInst, apiPc, req, res, lpushArg>>
    /\ svcInst' = queueService_getRedis(svcInst)
    /\ UNCHANGED <<mongo, apiExit, norm, web>>

\* publishScrapeJob(query), called by any importer of the queue service
PublishScrapeJob(query) ==
    /\ Lpush(publishPayload(query))
    /\ svcInst' = queueService_getRedis(svcInst)
    /\ UNCHANGED <<api, redisInst, apiPc, req, res, lpushArg, test, mongo,
                   apiExit, norm, web>>

\* testQueue: redis.lpop("scrape:jobs"), JSON.parse, compare payload.query
TestLpop ==
    /\ test.pc = "published"
    /\ IF queue = <<>>
       THEN /\ test' = [test EXCEPT !.pc = "done", !.result = "no_item"]
            /\ UNCHANGED queue
       ELSE /\ queue' = Tail(queue)
            /\ LET p == Head(queue).payload
               IN  test' =
                     [test EXCEPT
                        !.pc = "done",
                        !.got = PayloadGet(p, "query"),
                        !.result =
                            IF ~p.json THEN "threw"
                            ELSE IF PayloadGet(p, "query") = test.query
                                 THEN "success" ELSE "mismatch"]
    /\ UNCHANGED <<api, redisInst, apiPc, req, res, lpushArg>>
    /\ UNCHANGED <<mongo, apiExit, svcInst, norm, web>>
    /\ UNCHANGED <<pushed, state, pc, shutdown, registry, cur, strategy, raws,
                   pool, conn, closes, exitCode, received, hist, sigInSearch,
                   popsAfterSig>>

SearchErrors == {"scrape_failure", "blocked"}

\* What the world outside a worker may do to it: the results and the errors
\* of a search, whether the store accepts a write, which connection fails;
\* track tells whether the histories of signals are recorded.
LifeEnv ==
    [results |-> CoreResults, errors |-> SearchErrors, saves |-> BOOLEAN,
     fails |-> {"redis", "mongo"}, track |-> TRUE]
ProcEnv ==
    [results |-> Results, errors |-> SearchErrors, saves |-> BOOLEAN,
     fails |-> {"redis", "mongo"}, track |-> TRUE]
ScaleEnv ==
    [results |-> ScaleResults, errors |-> {"scrape_failure"}, saves |-> {TRUE},
     fails |-> {"redis"}, track |-> FALSE]

\* Every step of worker w's own control flow.
WorkerStep(w, env) ==
    \/ StartOk(w)
    \/ \E which \in env.fails : StartFail(w, which)
    \/ LoopCheck(w)
    \/ IssueDequeue(w)
    \/ BrpopJob(w, env.track)
    \/ BrpopTimeout(w, env.track)
    \/ BeginProcess(w)
    \/ \E recs \in env.results : SearchReturn(w, recs)
    \/ \E err \in env.errors : SearchFail(w, err)
    \/ \E ok \in env.saves : Save(w, ok)
    \/ ShutdownExecutor(w)
    \/ CloseRedis(w)
    \/ CloseMongo(w)

\* One job of any payload, already pushed on the queue.
ProcInit ==
    /\ \E p \in Payloads :
          /\ queue = <<[id |-> 1, payload |-> p]>>
          /\ hist = [j \in JobIds |->
                        IF j = 1 THEN [NoHist EXCEPT !.payload = p] ELSE NoHist]
    /\ pushed = 1
    /\ Boot
    /\ ApiBoot

\* One worker on the queue, with the payloads and results of the lifecycle.
Next ==
    \/ \E p \in CorePayloads : Push(p)
    \/ Signal(1, TRUE)
    \/ WorkerStep(1, LifeEnv)

Spec == Init /\ [][Next]_vars

\* The same, every worker step being taken once it stays possible: the event
\* loop runs the worker, BRPOP returns within its timeout, search() returns.
FairSpec == Spec /\ WF_vars(WorkerStep(1, LifeEnv))

\* The same worker, which may be killed at any point.
CrashNext ==
    \/ \E p \in CorePayloads : Push(p)
    \/ Signal(1, TRUE)
    \/ WorkerStep(1, LifeEnv)
    \/ Crash(1)

CrashSpec == Init /\ [][CrashNext]_vars

\* One worker processing one job, of every payload and every search result.
ProcNext ==
    \/ Signal(1, TRUE)
    \/ WorkerStep(1, ProcEnv)

ProcSpec == ProcInit /\ [][ProcNext]_vars

\* Several workers consuming the same queue.
ScaleNext ==
    \/ \E p \in ScalePayloads : Push(p)
    \/ \E w \in Workers : Signal(w, FALSE)
    \/ \E w \in Workers : WorkerStep(w, ScaleEnv)

ScaleSpec == Init /\ [][ScaleNext]_vars

\* The API process serving POST /api/scrape.
ApiNext ==
    \/ Bootstrap
    \/ ConnectOk
    \/ ConnectFail
    \/ \E body \in Bodies : Receive(body)
    \/ \E now \in Times : Handle(now)
    \/ LpushOk
    \/ LpushFail
    \/ Respond

ApiSpec == Init /\ [][ApiNext]_vars

\* The script testQueue on a list that other producers push on as well.
TestNext ==
    \/ \E p \in Payloads : Push(p)
    \/ \E t \in Times : TestPublish(t)
    \/ TestLpop

TestSpec == Init /\ [][TestNext]_vars

\* The API process and the queue service, each with its own Redis client.
ClientBodies ==
    {[query |-> Str(<<"iphone 15">>), retailer |-> Str(<<"amazon">>)],
     [query |-> Str(<<"iphone 15">>), retailer |-> Str(<<"ebay">>)],
     [query |-> Absent, retailer |-> Str(<<"flipkart">>)]}

ClientNext ==
    \/ Bootstrap
    \/ ConnectOk
    \/ ConnectFail
    \/ \E body \in ClientBodies : Receive(body)
    \/ \E now \in Times : Handle(now)
    \/ LpushOk
    \/ LpushFail
    \/ Respond
    \/ \E query \in {<<"iphone 15">>, <<"pixel 9">>} : PublishScrapeJob(query)

ClientSpec == Init /\ [][ClientNext]_vars

\* ------------------------------------------------------------ /api/products
\* The paths requested below the mount point, one token per segment.
Paths ==
    {<<>>, <<"search">>, <<"Search">>, <<"65f1a2b3c4d5e6f7a8b9c0d1">>,
     <<"65f1a2b3c4d5e6f7a8b9c0d2">>, <<"not-an-id">>, <<"search", "all">>}

\* The ids of the products the store holds.
StoredIds == {"65f1a2b3c4d5e6f7a8b9c0d1"}

\* The texts that are ObjectIds; any other id makes the lookup throw.
ObjectIds == {"65f1a2b3c4d5e6f7a8b9c0d1", "65f1a2b3c4d5e6f7a8b9c0d2"}

\* req.query.q: absent, a string, or an array when ?q= is given twice.
QueryArray == [type |-> "array", str |-> <<"a", "b">>]
Qs == {Absent, Str(<<>>), Str(<<"iphone">>), Str(<<SP>>), QueryArray}

\* Express compares a path with a route without regard to case.
toLowerCase(seg) == IF seg = "Search" THEN "search" ELSE seg

\* A route path matches: "/" the mount point, "/:id" any one segment, a
\* literal segment that segment.
Matches(route, path) ==
    CASE route = "/" -> path = <<>>
      [] route = "/:id" -> Len(path) = 1
      [] OTHER -> Len(path) = 1 /\ "/" \o toLowerCase(path[1]) = route

productRouter_IdFirst ==
    <<(<<"/", "getAllProducts">>), <<"/:id", "getProductById">>,
      <<"/search", "searchProducts">>>>

\* productRouter.get(path, handler), in the order of registration
productRouter ==
    <<(<<"/", "getAllProducts">>), <<"/search", "searchProducts">>,
      <<"/:id", "getProductById">>>>

\* The handler of the first route registered that matches the path.
Dispatch(router, path) ==
    LET hits == {i \in DOMAIN router : Matches(router[i][1], path)}
    IN  IF hits = {} THEN "notFound"
        ELSE router[CHOOSE i \in hits : \A k \in hits : i <= k][2]

\* What Product.findById(id) may do: resolve to the document or to null, or
\* reject, which it always does for an id that is no ObjectId.
Lookups(id) ==
    IF id \notin ObjectIds THEN {"throw"}
    ELSE IF id \in StoredIds THEN {"doc", "throw"}
    ELSE {"null", "throw"}

\* What Product.find(...) may do: resolve to a list, or reject, which it
\* always does for a $regex that is no string.
Finds(q) == IF q.type = "string" THEN {"list", "throw"} ELSE {"throw"}

Returned(v) == [thrown |-> FALSE, value |-> v]
Thrown == [thrown |-> TRUE, value |-> "null"]

findById_Rethrow(lookup) ==
    IF lookup = "throw" THEN Thrown ELSE Returned(lookup)

\* productService.findById: try { return await Product.findById(id) }
\* catch { return null }
findById(lookup) ==
    IF lookup = "throw" THEN Returned("null") ELSE Returned(lookup)

\* (req.query.q as string) ?? ""
QueryOf(q) == IF q.type = "absent" THEN Str(<<>>) ELSE q

\* !query
Falsy(v) == v.type = "string" /\ StrLen(v.str) = 0

\* A GET below /api/products arrives.
WebRequest(path, q) ==
    /\ api = "listening"
    /\ web.pc \in {"idle", "done"}
    /\ web' = [NoWeb EXCEPT !.pc = "route", !.path = path, !.q = q]
    /\ UNCHANGED <<api, redisInst, apiPc, req, res, lpushArg, test, mongo,
                   apiExit, svcInst, norm>>
    /\ UNCHANGED workerVars

\* The router picks the handler; without one Express answers 404 itself.
Route ==
    /\ web.pc = "route"
    /\ LET h == Dispatch(productRouter, web.path)
       IN  web' = IF h = "notFound"
                  THEN [web EXCEPT !.pc = "done", !.handler = h,
                                   !.status = 404, !.body = "Cannot GET"]
                  ELSE [web EXCEPT !.pc = "handler", !.handler = h]
    /\ UNCHANGED <<api, redisInst, apiPc, req, res, lpushArg, test, mongo,
                   apiExit, svcInst, norm>>
    /\ UNCHANGED workerVars

\* getAllProducts
GetAllProducts(found) ==
    /\ web.pc = "handler"
    /\ web.handler = "getAllProducts"
    /\ web' = IF found = "throw"
              THEN [web EXCEPT !.pc = "done", !.storeCalls = 1,
                               !.found = found,
                               !.status = errorHandler("Error").status,
                               !.body = errorHandler("Error").message]
              ELSE [web EXCEPT !.pc = "done", !.storeCalls = 1,
                               !.found = found, !.status = 200,
                               !.body = "products"]
    /\ UNCHANGED <<api, redisInst, apiPc, req, res, lpushArg, test, mongo,
                   apiExit, svcInst, norm>>
    /\ UNCHANGED workerVars

\* getProductById
GetProductById(lookup) ==
    /\ web.pc = "handler"
    /\ web.handler = "getProductById"
    /\ lookup \in Lookups(web.path[1])
    /\ LET product == findById(lookup)
       IN  web' =
             IF product.thrown
             THEN [web EXCEPT !.pc = "done", !.storeCalls = 1,
                              !.found = lookup,
                              !.status = errorHandler("Error").status,
                              !.body = errorHandler("Error").message]
             ELSE IF product.value = "null"
             THEN [web EXCEPT !.pc = "done", !.storeCalls = 1,
                              !.found = lookup, !.status = 404,
                              !.body = "Product not found"]
             ELSE [web EXCEPT !.pc = "done", !.storeCalls = 1,
                              !.found = lookup, !.status = 200,
                              !.body = "product"]
    /\ UNCHANGED <<api, redisInst, apiPc, req, res, lpushArg, test, mongo,
                   apiExit, svcInst, norm>>
    /\ UNCHANGED workerVars

searchProducts_NoCheck(q, found) ==
    IF found = "throw"
    THEN [web EXCEPT !.pc = "done", !.storeCalls = 1, !.found = found,
                     !.status = errorHandler("Error").status,
                     !.body = errorHandler("Error").message]
    ELSE [web EXCEPT !.pc = "done", !.storeCalls = 1, !.found = found,
                     !.status = 200, !.body = "products"]

\* searchProducts: the response to ?q=, found being what the store does if
\* it is asked
searchProducts(q, found) ==
    IF Falsy(QueryOf(q))
    THEN [web EXCEPT !.pc = "done", !.status = 400,
                     !.body = "Missing query parameter ?q="]
    ELSE IF found = "throw"
    THEN [web EXCEPT !.pc = "done", !.storeCalls = 1, !.found = found,
                     !.status = errorHandler("Error").status,
                     !.body = errorHandler("Error").message]
    ELSE [web EXCEPT !.pc = "done", !.storeCalls = 1, !.found = found,
                     !.status = 200, !.body = "products"]

SearchProducts(found) ==
    /\ web.pc = "handler"
    /\ web.handler = "searchProducts"
    /\ web' = searchProducts(web.q, found)
    /\ UNCHANGED <<api, redisInst, apiPc, req, res, lpushArg, test, mongo,
                   apiExit, svcInst, norm>>
    /\ UNCHANGED workerVars

\* The API process serving GET /api/products.
WebNext ==
    \/ Bootstrap
    \/ ConnectOk
    \/ ConnectFail
    \/ \E path \in Paths, q \in Qs : WebRequest(path, q)
    \/ Route
    \/ \E found \in {"list", "throw"} : GetAllProducts(found)
    \/ \E lookup \in {"doc", "null", "throw"} : GetProductById(lookup)
    \/ \E found \in Finds(QueryOf(web.q)) : SearchProducts(found)

WebSpec == Init /\ [][WebNext]_vars

\* --------------------------------------------------------------- normalizer
Strategies == {e[2] : e \in STRATEGY_REGISTRY}

\* strategy.normalize(raw) is called.
NormCall(s, raw) ==
    /\ norm.pc # "called"
    /\ norm' = [pc |-> "called", strategy |-> s, raw |-> raw,
                out |-> NoProduct]
    /\ UNCHANGED <<api, redisInst, apiPc, req, res, lpushArg, test, mongo,
                   apiExit, svcInst, web>>
    /\ UNCHANGED workerVars

\* The call returns the product, or the exception raised on the way.
NormReturn ==
    /\ norm.pc = "called"
    /\ LET out == normalize(norm.strategy, norm.raw)
       IN  IF ~norm.raw.ok \/ out.price.raised
           THEN norm' = [norm EXCEPT !.pc = "raised"]
           ELSE norm' = [norm EXCEPT !.pc = "returned", !.out = out]
    /\ UNCHANGED <<api, redisInst, apiPc, req, res, lpushArg, test, mongo,
                   apiExit, svcInst, web>>
    /\ UNCHANGED workerVars

NormNext ==
    \/ \E s \in Strategies, raw \in PricedRecords : NormCall(s, raw)
    \/ NormReturn

NormSpec == Init /\ [][NormNext]_vars

\* ------------------------------------------------------------------ claims
Sunk(j) == Len(hist[j].sink)

\* C1: a termination signal delivered while the worker is inside search()
\* for a job whose search then returns records leads to a state in which the
\* Sink was called for that job, the worker is STOPPED and the queue and the
\* store connection were each closed exactly once; no connection is ever
\* closed twice.
C1_SignalDuringSearch ==
    \A w \in Workers :
        /\ [](closes[w].redis <= 1 /\ closes[w].mongo <= 1)
        /\ \A j \in JobIds :
               [](sigInSearch[w] = j /\ hist[j].returned
                    => <>(/\ state[w] = "STOPPED"
                          /\ Sunk(j) = 1
                          /\ closes[w] = [redis |-> 1, mongo |-> 1]))

C1_Witness ==
    \E w \in Workers, j \in JobIds :
        /\ sigInSearch[w] = j
        /\ hist[j].returned
        /\ Sunk(j) = 1
        /\ state[w] = "STOPPED"
        /\ closes[w] = [redis |-> 1, mongo |-> 1]

\* C2: the sets of jobs received by distinct workers consuming the same
\* queue are pairwise disjoint.
C2_DisjointDelivery ==
    \A v, w \in Workers : v # w => received[v] \cap received[w] = {}

C2_Witness ==
    \E v, w \in Workers :
        /\ v # w
        /\ received[v] # {}
        /\ received[w] # {}
        /\ pushed = MaxJobs

\* C3: the lifecycle state moves only along STARTING -> RUNNING -> DRAINING
\* -> STOPPED, one state at a time, and nothing of a STOPPED worker can act.
LifecycleOrder ==
    {<<"STARTING", "RUNNING">>, <<"RUNNING", "DRAINING">>,
     <<"DRAINING", "STOPPED">>}

C3_LifecycleForward ==
    /\ [][\A w \in Workers :
            state'[w] # state[w] => <<state[w], state'[w]>> \in LifecycleOrder]_vars
    /\ [](\A w \in Workers :
            state[w] = "STOPPED"
                => ~ENABLED (Signal(w, TRUE) \/ WorkerStep(w, LifeEnv)))

C3_Witness ==
    \E w \in Workers : state[w] = "STOPPED" /\ received[w] # {} /\ queue # <<>>

\* C4: from the step in which the loop observes the flag and enters DRAINING,
\* the worker issues no blocking pop: none is outstanding and none is
\* submitted to the pool.
C4_NoDequeueOnceDraining ==
    /\ [](\A w \in Workers :
            state[w] \in {"DRAINING", "STOPPED"}
                => pool[w] # "busy" /\ pc[w] \notin {"issue", "await_pop"})
    /\ [][\A w \in Workers :
            state'[w] \in {"DRAINING", "STOPPED"}
                => ~(pool[w] # "busy" /\ pool'[w] = "busy")]_vars

C4_Witness ==
    \E w \in Workers : state[w] = "DRAINING" /\ queue # <<>>

\* C5: the pool is shut down, with no call in flight, before the queue
\* connection is closed, and the queue connection is closed before the store
\* connection; the store connection is open whenever a job is being
\* processed or written.
C5_CleanupOrder ==
    /\ [](\A w \in Workers :
            /\ conn[w].redis = "closed" => pool[w] = "down"
            /\ conn[w].mongo = "closed" => conn[w].redis = "closed"
            /\ pc[w] \in {"process", "searching", "save"}
                   => conn[w].mongo = "open")
    /\ [][\A w \in Workers :
            pool[w] # "down" /\ pool'[w] = "down" => pool[w] = "idle"]_vars

C5_Witness ==
    \E w \in Workers :
        /\ pool[w] = "down"
        /\ conn[w] = [redis |-> "closed", mongo |-> "open"]
        /\ \E j \in received[w] : hist[j].outcome = "saved"

\* C6: a RUNNING worker whose shutdown flag is set eventually reaches
\* STOPPED, given that its steps keep being taken (every pop returns within
\* its timeout, every search returns or fails); at most one pop returns
\* between the signal and the drain, so an idle queue costs one timeout.
C6_EventuallyStopped ==
    \A w \in Workers :
        /\ [](popsAfterSig[w] <= 1)
        /\ (shutdown[w] /\ state[w] = "RUNNING") ~> (state[w] = "STOPPED")

C6_Witness ==
    \E w \in Workers :
        /\ state[w] = "STOPPED"
        /\ popsAfterSig[w] = 1
        /\ received[w] = {}
        /\ pushed = 0

\* C7: the step in which a job ends in a per-job error leaves the worker
\* RUNNING and alive at the head of its loop, from where it issues the next
\* pop unless the flag is set; a process exits only with status 1 out of
\* STARTING or with status 0 once STOPPED.
ErrorOutcomes ==
    {"malformed", "missing_query", "missing_retailer", "unsupported",
     "scrape_failure", "blocked", "persistence_failure"}

Blank(p, key) == strip(PayloadGet(p, key)) = <<>>

C8_InvalidJobDropped ==
    \A j \in JobIds :
        LET p == hist[j].payload
        IN  p.json /\ (Blank(p, "query") \/ Blank(p, "retailer"))
                => /\ hist[j].resolves = 0
                   /\ hist[j].searches = 0
                   /\ Sunk(j) = 0
                   /\ hist[j].outcome
                          \in {"none", "missing_query", "missing_retailer"}

C8_Witness ==
    \E w \in Workers, j \in JobIds :
        /\ j \in received[w]
        /\ hist[j].payload = JobPayload(<<"iphone 15">>, <<SP>>)
        /\ hist[j].outcome = "missing_retailer"
        /\ hist[j].resolves = 0
        /\ pc[w] = "loop"

AllNormalize(recs) == \A i \in 1..Len(recs) : recs[i].ok

Done(j) ==
    /\ hist[j].returned
    /\ AllNormalize(hist[j].result)
    /\ hist[j].outcome \in {"saved", "persistence_failure"}

OneBatchOfN(j) ==
    /\ Sunk(j) = 1
    /\ Len(hist[j].sink[1]) = Len(hist[j].result)

C11_WireFormat ==
    apiPc = "idle" /\ res.status = 202
        => LET p == hist[pushed].payload
           IN  /\ p.json
               /\ {"query", "retailer", "createdAt"} \subseteq p.keys
               /\ PayloadGet(p, "query") = req.query.str
               /\ PayloadGet(p, "retailer") = req.retailer.str
               /\ p.createdAt \in {toISOString(t) : t \in Times}

\* C12: a body whose query is missing, no string, empty or longer than 200
\* characters, or whose retailer is missing or neither amazon nor flipkart,
\* is answered 400 in the step that handles it, which leaves the queue as it
\* is; such a request never gets as far as LPUSH.
InvalidBody(b) ==
    \/ b.query.type # "string"
    \/ StrLen(b.query.str) = 0
    \/ StrLen(b.query.str) > 200
    \/ b.retailer.type # "string"
    \/ b.retailer.str \notin {<<"amazon">>, <<"flipkart">>}

C12_InvalidRejected ==
    /\ [][apiPc = "parse" /\ InvalidBody(req)
            => /\ res'.status = 400
               /\ apiPc' = "idle"
               /\ queue' = queue
               /\ pushed' = pushed]_vars
    /\ [](InvalidBody(req) => apiPc \in {"idle", "parse"})

C12_Witness ==
    /\ apiPc = "idle"
    /\ res.status = 400
    /\ req.query = Str(<<Repeat("x", 201)>>)
    /\ req.retailer = Str(<<"amazon">>)
    /\ Len(queue) = 1

\* C13: the list holds the jobs newest first from the LPUSH end, the pop
\* takes the oldest one at the other end, so the single worker receives the
\* jobs in the order of their push; and when it receives a job, every job it
\* received before has been processed to its end or dropped.
QueueIds == {queue[i].id : i \in 1..Len(queue)}

C13_Fifo ==
    /\ [](\A i, k \in 1..Len(queue) : i < k => queue[i].id > queue[k].id)
    /\ [][\A w \in Workers, j \in JobIds :
            j \notin received[w] /\ j \in received'[w]
                => /\ \A i \in QueueIds : j <= i
                   /\ \A i \in JobIds :
                          i < j => i \in received[w] /\ hist[i].outcome # "none"
                   /\ cur'[w].id = j]_vars

C13_Witness ==
    \E w \in Workers :
        /\ received[w] = {1}
        /\ pc[w] = "searching"
        /\ cur[w].id = 1
        /\ pushed = 2
        /\ QueueIds = {2}
        /\ hist[1].payload # hist[2].payload

\* C14: the jobs a worker has received and not yet finished are at most one,
\* the job it holds; while it issues or awaits a pop it holds none.
Unfinished(w) == {j \in received[w] : hist[j].outcome = "none"}

C14_OneJobAtATime ==
    \A w \in Workers :
        /\ Cardinality(Unfinished(w)) <= 1
        /\ Unfinished(w) \subseteq {cur[w].id}
        /\ pc[w] \in {"loop", "issue", "await_pop"} => Unfinished(w) = {}

C14_Witness ==
    \E w \in Workers :
        /\ received[w] = {1, 2}
        /\ hist[1].outcome = "saved"
        /\ Unfinished(w) = {2}
        /\ pc[w] = "save"

\* C15: whatever the outcome of a job, no step of the worker puts an element
\* on the list, a popped job is never on the list again, strategy.search()
\* is invoked at most once for it, and the record of a finished job never
\* changes again.
C15_NoRetry ==
    /\ [](\A j \in JobIds :
            /\ hist[j].searches <= 1
            /\ Sunk(j) <= 1
            /\ (\E w \in Workers : j \in received[w]) => j \notin QueueIds)
    /\ [][/\ Len(queue') <= Len(queue)
          /\ \A j \in JobIds :
                hist[j].outcome # "none" => hist'[j] = hist[j]]_vars

C15_Witness ==
    \E w \in Workers :
        /\ received[w] = {1}
        /\ hist[1].outcome = "persistence_failure"
        /\ hist[1].searches = 1
        /\ queue = <<>>
        /\ pc[w] = "issue"

C17_RegistryFrozen ==
    /\ [](\A w \in Workers :
            state[w] # "STARTING" => registry[w] = STRATEGY_REGISTRY)
    /\ [][\A w \in Workers :
            registry'[w] # registry[w]
                => state[w] = "STARTING" /\ state'[w] = "RUNNING"]_vars

C17_Witness ==
    \E w \in Workers :
        /\ state[w] = "RUNNING"
        /\ registry[w] = STRATEGY_REGISTRY
        /\ hist[1].payload = JobPayload(<<"iphone 15">>, <<"ebay">>)
        /\ hist[1].outcome = "unsupported"

\* C18: a worker leaves STARTING only with both connections opened; when
\* one cannot be opened the step out of the start is the exit with status 1,
\* still in STARTING, and the exited process has issued no pop, has received
\* no job and takes no further step (it does not try again).
C18_StartupFailureFatal ==
    /\ [](\A w \in Workers :
            /\ state[w] # "STARTING"
                   => conn[w].redis # "unopened" /\ conn[w].mongo # "unopened"
            /\ exitCode[w] = 1
                   => /\ state[w] = "STARTING"
                      /\ "unopened" \in {conn[w].redis, conn[w].mongo}
                      /\ received[w] = {}
                      /\ pool[w] = "idle"
                      /\ ~ENABLED WorkerStep(w, LifeEnv))
    /\ [][\A w \in Workers :
            pc[w] = "start" /\ pc'[w] # "start"
                => \/ /\ state'[w] = "RUNNING"
                      /\ conn'[w] = [redis |-> "open", mongo |-> "open"]
                   \/ /\ state'[w] = "STARTING"
                      /\ exitCode'[w] = 1
                      /\ pc'[w] = "exited"]_vars

C18_Witness ==
    \E w \in Workers :
        /\ exitCode[w] = 1
        /\ conn[w] = [redis |-> "open", mongo |-> "unopened"]
        /\ state[w] = "STARTING"
        /\ Len(queue) = 2

\* C19: publishScrapeJob changes the list by exactly one element, put at the
\* LPUSH end, which is a JSON object whose query is the one given; and when
\* the script's LPOP is the next operation on the list after it, it brings
\* back that query.
C19_PublishThenLpop ==
    /\ [][test.pc = "start" /\ test'.pc = "published"
            => /\ Len(queue') = Len(queue) + 1
               /\ Tail(queue') = queue
               /\ Head(queue').id = test'.id
               /\ Head(queue').payload.json
               /\ PayloadGet(Head(queue').payload, "query") = test'.query]_vars
    /\ [](test.pc = "done" /\ pushed = test.id
            => test.result = "success" /\ test.got = test.query)

C19_Witness ==
    /\ test.pc = "done"
    /\ test.id = 2
    /\ pushed = 2
    /\ test.result = "success"
    /\ test.got = TestQuery(1)
    /\ Len(queue) = 1
    /\ PayloadGet(queue[1].payload, "query") = <<"iphone 15">>

\* C20: a job whose search returned is never ended by a normalization
\* failure: it goes on to the Sink, and the batch the Sink gets holds one
\* product for each record of the result that normalizes, whatever the
\* position of the records that do not.
Normalizable(recs) == {i \in 1..Len(recs) : recs[i].ok}

NoNumber(price) ==
    \/ ~price.has
    \/ \A i \in DOMAIN price.text : price.text[i] \notin Digits
    \/ \E i \in DOMAIN price.text :
           price.text[i] \notin Digits \cup CurrencySymbols
                                 \cup ThousandsSeparators \cup {".", SP}
    \/ Count(price.text, ".") > 1

C21_UnparsablePriceIsNull ==
    norm.pc \in {"returned", "raised"} /\ NoNumber(norm.raw.price)
        => norm.pc = "returned" /\ norm.out.price = Null

C21_Witness ==
    /\ norm.pc = "returned"
    /\ norm.raw.price = PriceText(<<"Contact for price">>)
    /\ norm.out.price = Null

\* C22: the retailer of the product normalize returns is the identifier of
\* the strategy that was called, whatever retailer the raw record carries.
C22_RetailerFromStrategy ==
    norm.pc = "returned" => norm.out.retailer = retailer_name(norm.strategy)

C22_Witness ==
    /\ norm.pc = "returned"
    /\ norm.strategy = "AmazonScraper"
    /\ norm.raw.retailer = <<"flipkart">>
    /\ norm.out.retailer = <<"amazon">>

\* C23: POST /api/scrape answers 202 only in the step after its LPUSH has
\* completed, a step that adds nothing to the queue; a job is added only by
\* the awaited LPUSH, one at a time and before any response; and a request
\* whose LPUSH fails is answered 500 and is over, so it never answers 202.
Answers == apiPc # "idle" /\ apiPc' = "idle"

C23_AcceptedAfterLpush ==
    [][/\ Answers /\ res'.status = 202
           => /\ apiPc = "respond"
              /\ UNCHANGED <<queue, pushed>>
              /\ pushed > 0
              /\ hist[pushed].payload = lpushArg
       /\ pushed' # pushed
           => /\ apiPc = "lpush" /\ apiPc' = "respond"
              /\ pushed' = pushed + 1
              /\ res' = NoRes
       /\ apiPc = "respond" => Answers /\ res'.status = 202
       /\ apiPc = "lpush" /\ pushed' = pushed
           => Answers /\ res'.status = 500]_vars

C23_Witness ==
    /\ apiPc = "idle"
    /\ res.status = 202
    /\ pushed = MaxJobs
    /\ Len(queue) = MaxJobs

\* C24: the job pushed for a request answered 202 passes the validation of
\* the worker (query and retailer non-empty after trimming) and its retailer
\* is a key of the strategy registry.
C24_AcceptedJobsValid ==
    apiPc = "idle" /\ res.status = 202
        => LET p == hist[pushed].payload
           IN  /\ Validate(p) = "ok"
               /\ get_strategy(STRATEGY_REGISTRY, JobRetailer(p)) # ValueError

\* C25: a worker that is DRAINING or STOPPED has no job that it popped and
\* did not process to an outcome, the job of a pop that returned after the
\* signal included; and a worker past RUNNING receives no job, so that the
\* queue loses an element only to a RUNNING worker that receives it.
C25_PoppedJobsProcessed ==
    /\ [](\A w \in Workers :
            state[w] \in {"DRAINING", "STOPPED"} => Unfinished(w) = {})
    /\ [][/\ \A w \in Workers :
                state[w] # "RUNNING" => received'[w] = received[w]
          /\ Len(queue') < Len(queue)
                => \E w \in Workers :
                       /\ state[w] = "RUNNING"
                       /\ received'[w] # received[w]
                       /\ pc'[w] = "process"]_vars

C25_Witness ==
    \E w \in Workers :
        /\ shutdown[w]
        /\ popsAfterSig[w] = 1
        /\ sigInSearch[w] = 0
        /\ pc[w] = "save"
        /\ cur[w].id = 1
        /\ hist[1].searches = 1

\* C26: the pool of a worker runs a blocking pop exactly while the loop
\* awaits it, never while a job is being processed and never while a
\* received job is unfinished; a pop is submitted only to the idle pool, from
\* the head of the loop, once every job received before has its outcome.
C26_OneOutstandingDequeue ==
    /\ [](\A w \in Workers :
            /\ pool[w] = "busy" <=> pc[w] = "await_pop"
            /\ pc[w] \in {"process", "searching", "save"} => pool[w] = "idle"
            /\ pool[w] = "busy" => Unfinished(w) = {})
    /\ [][\A w \in Workers :
            pool[w] # "busy" /\ pool'[w] = "busy"
                => /\ pool[w] = "idle"
                   /\ pc[w] = "issue"
                   /\ Unfinished(w) = {}]_vars

C26_Witness ==
    \E w \in Workers :
        /\ pool[w] = "busy"
        /\ received[w] = {1}
        /\ hist[1].outcome = "saved"
        /\ queue # <<>>

\* C27: the API listens only with the MongoDB connection established, and
\* starts listening only in the step in which connectDB() resolves; once the
\* connection attempt has failed the process has exited with status 1, and
\* an exited process stays exited, so it never listens and takes no request.
C27_ListenAfterMongo ==
    /\ [](/\ api = "listening" => mongo = "connected"
          /\ mongo = "failed" => api = "exited" /\ apiExit = 1
          /\ api # "listening" => apiPc = "idle" /\ res = NoRes)
    /\ [][/\ api # "listening" /\ api' = "listening"
              => mongo = "connecting" /\ mongo' = "connected"
          /\ api = "exited" => api' = "exited"]_vars

C27_Witness ==
    /\ mongo = "failed"
    /\ api = "exited"
    /\ apiExit = 1
    /\ pushed = 0

\* C28: a GET of /api/products/search is handled by searchProducts, never by
\* getProductById; when q is missing or the empty string it is answered 400
\* "Missing query parameter ?q=" and the store was not asked.
IsSearchPath(path) == path = <<"search">>

MissingOrEmpty(q) == q = Absent \/ q = Str(<<>>)

C28_SearchRoute ==
    /\ web.pc \in {"handler", "done"} /\ IsSearchPath(web.path)
           => web.handler = "searchProducts"
    /\ web.pc = "done" /\ IsSearchPath(web.path) /\ MissingOrEmpty(web.q)
           => /\ web.status = 400
              /\ web.body = "Missing query parameter ?q="
              /\ web.storeCalls = 0

C28_Witness ==
    /\ web.pc = "done"
    /\ web.path = <<"search">>
    /\ web.q = Str(<<>>)
    /\ web.handler = "searchProducts"
    /\ web.status = 400

\* C29: getProductById answers 404 "Product not found" when the lookup finds
\* nothing and when the lookup throws; it never answers 500, and it answers
\* 200 only with the product the lookup found.
C29_NotFoundOnFailedLookup ==
    web.pc = "done" /\ web.handler = "getProductById"
        => /\ web.found \in {"null", "throw"}
                 => web.status = 404 /\ web.body = "Product not found"
           /\ web.status # 500
           /\ web.status = 200 => web.found = "doc" /\ web.body = "product"

C29_Witness ==
    /\ web.pc = "done"
    /\ web.handler = "getProductById"
    /\ web.path = <<"not-an-id">>
    /\ web.found = "throw"
    /\ web.status = 404

\* C30: each module has constructed at most one Redis client, none before
\* its getRedis() is first called, and once it has one no later call
\* constructs another: every call returns the client of the first call.
C30_RedisSingleton ==
    /\ [](/\ redisInst <= 1
          /\ svcInst <= 1
          /\ api \in {"init", "connecting"} => redisInst = 0
          /\ pushed = 0 => svcInst = 0)
    /\ [][/\ redisInst # 0 => redisInst' = redisInst
          /\ svcInst # 0 => svcInst' = svcInst
          /\ redisInst' # redisInst
                => api' = "listening" \/ apiPc' = "lpush"
          /\ svcInst' # svcInst => pushed' = pushed + 1]_vars

C30_Witness ==
    /\ redisInst = 1
    /\ svcInst = 1
    /\ api = "listening"
    /\ res.status = 500
    /\ pushed = MaxJobs
    /\ \A j \in 1..MaxJobs : hist[j].payload.keys = {"query"}

====
